---- MODULE Spec2Model ----
(***************************************************************************)
(* pinephone-kbpwrd: the keyboard power daemon of src/main.rs.             *)
(*                                                                         *)
(* Once per tick the daemon reads a telemetry snapshot from sysfs          *)
(* (Device::info), decides one Action (Ctx::decide) and executes it        *)
(* (Ctx::step).  The model keeps the three sysfs attributes the daemon     *)
(* writes (boost enable, shared input limit, keyboard charge limit), the   *)
(* Ctx fields, and a log of the last tick.  The two Instants of Ctx are    *)
(* kept as their elapsed() in whole seconds, saturated just above the      *)
(* threshold they are compared with (the code only tests elapsed() > STEP  *)
(* and elapsed() > OFFLINE).                                               *)
(***************************************************************************)
EXTENDS Integers, Sequences, FiniteSets

VARIABLES
    model,          \* Device.model, set once by Model::detect
    kb_enabled,     \* sysfs ip5xxx-boost/online, 0 or 1
    mb_limit,       \* sysfs <usb>/input_current_limit
    kb_limit,       \* sysfs ip5xxx-charger/constant_charge_current
    kb_charging,    \* Ctx.kb_charging
    last_step,      \* Ctx.last_step.elapsed(), saturated at STEP + 1
    last_offline,   \* Ctx.last_offline.elapsed(), saturated at OFFLINE + 1
    offline_for,    \* seconds the boost has been off in sysfs, saturated at OFFLINE + 1
    since_fired,    \* seconds since the start or the last tick that fired, saturated at STEP + 1
    session,        \* the last of Charging, Discharging a snapshot showed the keyboard in
    pc,             \* main's loop: "sleep", "step", or "aborted" after a panic
    tick,           \* log of the current iteration of main's loop
    prev,           \* summary of the iteration before it
    call            \* the pure-function call of the function specification

vars == <<model, kb_enabled, mb_limit, kb_limit, kb_charging, last_step,
          last_offline, offline_for, since_fired, session, pc, tick, prev, call>>

----------------------------------------------------------------------------
(* Program constants *)

KBLIM == 2300000
STEP == 10
OFFLINE == 20
VDIF == 150000
SOC_FLOOR == 30
KB_STEP == 100000

(* Bounds of the model *)

\* A tick is sleep(1 s) plus the time its reads and writes take; two
\* durations are explored, one below STEP and one above it.
ShortTick == 5
LongTick == 11

Min(a, b) == IF a < b THEN a ELSE b

Abs(a) == IF a < 0 THEN -a ELSE a

----------------------------------------------------------------------------
(* Model: the capability tables *)

Models == {"PinePhone", "PinePhonePro"}

PPP == <<450000, 850000, 1000000, 1250000, 1500000, 2000000>>

PP == <<500000, 900000, 1500000, 2000000>>

valid_limits(m) == IF m = "PinePhonePro" THEN PPP ELSE PP

default_limit(m) == valid_limits(m)[1]

max_limit(m) == IF m = "PinePhonePro" THEN valid_limits(m)[6] ELSE valid_limits(m)[4]

min_limit(m) == valid_limits(m)[1]

\* The first index whose entry equals cur, 0 when none does.
position(valid, cur) ==
    LET hits == {i \in 1..Len(valid) : valid[i] = cur}
    IN  IF hits = {} THEN 0 ELSE CHOOSE i \in hits : \A j \in hits : i <= j

\* Faulty variants of limit_step, used to test the claims about it: one
\* whose step up takes the entry below, one whose step down always lands on
\* the first entry.
limit_step_up_goes_down(m, up, cur) ==
    LET valid == valid_limits(m)
        i == position(valid, cur)
    IN  IF i = 0 THEN valid[3]
        ELSE IF i = 1 THEN valid[1]
        ELSE valid[i - 1]

limit_step_down_to_min(m, up, cur) ==
    LET valid == valid_limits(m)
        i == position(valid, cur)
    IN  IF i = 0 THEN valid[3]
        ELSE IF up THEN valid[Min(Len(valid), i + 1)]
        ELSE valid[1]

\* A faulty variant of limit_step that returns a value matching no entry as
\* it is.
limit_step_keeps_stray(m, up, cur) ==
    LET valid == valid_limits(m)
        i == position(valid, cur)
    IN  IF i = 0 THEN cur
        ELSE IF up THEN valid[Min(Len(valid), i + 1)]
        ELSE IF i = 1 THEN valid[1]
        ELSE valid[i - 1]

limit_step(m, up, cur) ==
    LET valid == valid_limits(m)
        i == position(valid, cur)
    IN  IF i = 0 THEN valid[3]
        ELSE IF up THEN valid[Min(Len(valid), i + 1)]
        ELSE IF i = 1 THEN valid[1]
        ELSE valid[i - 1]

----------------------------------------------------------------------------
(* Telemetry: what one tick reads from sysfs *)

\* The attributes Device::new names.
Attrs == {"kb_state", "kb_soc", "kb_voltage", "kb_current", "kb_limit", "kb_enabled",
          "mb_state", "mb_soc", "mb_voltage", "mb_current", "mb_limit"}

\* State::from_str on the text of a status attribute.
from_str(s) ==
    CASE s = "Charging" -> "Charging"
      [] s = "Discharging" -> "Discharging"
      [] s \in {"Full", "Not charging"} -> "Full"
      [] OTHER -> "Err"

\* read(path): bad is the attribute whose read fails this tick, either in
\* fs::read_to_string or in parse; a status text also fails to parse when
\* from_str rejects it.
read_fails(attr, bad) == attr = bad

Failed == [ok |-> FALSE]

\* Faulty variants of KeyboardBattery::get: one that goes on when the
\* voltage cannot be read, one that requires the state of charge.
KeyboardBattery_get_lenient(raw, limit, enabled, bad) ==
    IF \/ \E a \in {"kb_state", "kb_current", "kb_limit", "kb_enabled"} :
              read_fails(a, bad)
       \/ from_str(raw.kb_state) = "Err"
    THEN Failed
    ELSE [ok |-> TRUE,
          state |-> from_str(raw.kb_state),
          soc |-> IF read_fails("kb_soc", bad) THEN {} ELSE {raw.kb_soc},
          voltage |-> raw.kb_voltage,
          current |-> raw.kb_current,
          limit |-> limit,
          enabled |-> (enabled = 1)]

KeyboardBattery_get_strict(raw, limit, enabled, bad) ==
    IF \/ \E a \in {"kb_state", "kb_soc", "kb_voltage", "kb_current", "kb_limit",
                    "kb_enabled"} :
              read_fails(a, bad)
       \/ from_str(raw.kb_state) = "Err"
    THEN Failed
    ELSE [ok |-> TRUE,
          state |-> from_str(raw.kb_state),
          soc |-> {raw.kb_soc},
          voltage |-> raw.kb_voltage,
          current |-> raw.kb_current,
          limit |-> limit,
          enabled |-> (enabled = 1)]

\* KeyboardBattery::get: every field but soc is required; soc is an Option,
\* kept as a set of at most one value.
KeyboardBattery_get(raw, limit, enabled, bad) ==
    IF \/ \E a \in {"kb_state", "kb_voltage", "kb_current", "kb_limit", "kb_enabled"} :
              read_fails(a, bad)
       \/ from_str(raw.kb_state) = "Err"
    THEN Failed
    ELSE [ok |-> TRUE,
          state |-> from_str(raw.kb_state),
          soc |-> IF read_fails("kb_soc", bad) THEN {} ELSE {raw.kb_soc},
          voltage |-> raw.kb_voltage,
          current |-> raw.kb_current,
          limit |-> limit,
          enabled |-> (enabled = 1)]

\* MainBattery::get::get_state: a reported Charging with a current that is
\* not positive is Discharging.
get_state(status, current) ==
    CASE from_str(status) = "Full" -> "Full"
      [] from_str(status) = "Charging" /\ current > 0 -> "Charging"
      [] from_str(status) = "Charging" -> "Discharging"
      [] from_str(status) = "Discharging" -> "Discharging"
      [] OTHER -> "Err"

\* A faulty variant of the sign hack that negates instead of complementing.
infer_current_negates(m, limit, current_abs) ==
    IF m = "PinePhone" /\ current_abs > limit + (limit \div 4)
    THEN -current_abs
    ELSE current_abs

\* The sign hack of the PinePhone arm: limit as i32 >> 2 is limit \div 4 and
\* !current_abs is -current_abs - 1 (all values below 2^31).
infer_current(m, limit, current_abs) ==
    IF m = "PinePhone" /\ current_abs > limit + (limit \div 4)
    THEN -current_abs - 1
    ELSE current_abs

\* MainBattery::get: every field is required, soc included.
MainBattery_get(m, raw, limit, bad) ==
    LET current == infer_current(m, limit, raw.mb_current)
    IN  IF \/ \E a \in {"mb_state", "mb_soc", "mb_voltage", "mb_current", "mb_limit"} :
                  read_fails(a, bad)
           \/ get_state(raw.mb_state, current) = "Err"
        THEN Failed
        ELSE [ok |-> TRUE,
              state |-> get_state(raw.mb_state, current),
              soc |-> raw.mb_soc,
              voltage |-> raw.mb_voltage,
              current |-> current,
              limit |-> limit]

\* Device::info: either part failing fails the snapshot.
Device_info(m, raw, mbl, kbl, enabled, bad) ==
    LET kbd == KeyboardBattery_get(raw, kbl, enabled, bad)
        mb == MainBattery_get(m, raw, mbl, bad)
    IN  IF kbd.ok /\ mb.ok THEN [ok |-> TRUE, kbd |-> kbd, mb |-> mb] ELSE Failed

----------------------------------------------------------------------------
(* Ctx::decide *)

Actions == {"MaybeStepUp", "MaybeStepDown", "MaybePhUpKbDown", "MaybeStepKbUp",
            "SetDefault", "SetMax", "Pass"}

\* The Charging arm once the session has started (lines 313-327).
decide_charging(m, info) ==
    LET lim == KBLIM + (KBLIM \div 16)
        ka == info.kbd.current
        tot == ka + info.mb.limit
        nextl == limit_step(m, TRUE, info.mb.limit)
    IN  IF ka + nextl < lim /\ info.mb.current < 0 THEN "MaybeStepUp"
        ELSE IF info.mb.current < 0 THEN "MaybePhUpKbDown"
        ELSE IF tot >= lim THEN "MaybeStepDown"
        ELSE IF tot < KBLIM THEN "MaybeStepKbUp"
        ELSE "Pass"

\* The voltage comparison of two discharging batteries (lines 345-362).
decide_voltage(info) ==
    LET mbv == info.mb.voltage
        kbv == info.kbd.voltage
        mbc == Abs(info.mb.current)
        kbc == Abs(info.kbd.current)
    IN  IF mbv > kbv /\ mbv - kbv > VDIF THEN "MaybeStepDown"
        ELSE IF (mbv >= kbv /\ mbv - kbv < VDIF) \/ (kbv >= mbv /\ kbv - mbv < VDIF)
        THEN "Pass"
        ELSE IF mbc > kbc THEN "MaybeStepUp"
        ELSE "Pass"

\* The low state-of-charge arm (lines 365-373).  delta is a u32 subtraction:
\* when limit_step returns more than the limit it overflows, which panics in
\* a build with overflow checks and wraps to at least 2^31 otherwise, above
\* every positive i32 current.
decide_low_soc(m, info, checks) ==
    LET down == limit_step(m, FALSE, info.mb.limit)
    IN  IF info.mb.limit < down
        THEN IF checks THEN "Panic" ELSE "Pass"
        ELSE IF info.mb.current > 0 /\ info.mb.limit - down < info.mb.current
        THEN "MaybeStepDown"
        ELSE "Pass"

\* A faulty variant of Ctx::decide that does not record the session start.
decide_forgets_session(m, kbc, info, checks) ==
    CASE info.kbd.state = "Charging" ->
            IF ~kbc THEN [action |-> "SetDefault", kb_charging |-> kbc]
            ELSE [action |-> decide_charging(m, info), kb_charging |-> kbc]
      [] info.kbd.state = "Full" ->
            [action |-> IF info.kbd.enabled /\ kbc THEN "SetMax" ELSE "SetDefault",
             kb_charging |-> kbc]
      [] info.kbd.state = "Discharging" ->
            IF kbc THEN [action |-> "SetDefault", kb_charging |-> FALSE]
            ELSE [action |->
                    CASE info.mb.state = "Full" -> "SetDefault"
                      [] info.mb.state = "Charging" /\ info.mb.soc > SOC_FLOOR ->
                            "MaybeStepDown"
                      [] info.mb.state = "Discharging" /\ info.mb.soc > SOC_FLOOR ->
                            decide_voltage(info)
                      [] info.mb.state = "Charging" /\ info.mb.soc <= SOC_FLOOR ->
                            decide_low_soc(m, info, checks)
                      [] info.mb.state = "Discharging" /\ info.mb.soc <= SOC_FLOOR ->
                            "MaybeStepUp",
                  kb_charging |-> kbc]

\* A faulty variant of Ctx::decide whose Full arm ends the session.
decide_full_ends_session(m, kbc, info, checks) ==
    CASE info.kbd.state = "Charging" ->
            IF ~kbc THEN [action |-> "SetDefault", kb_charging |-> TRUE]
            ELSE [action |-> decide_charging(m, info), kb_charging |-> kbc]
      [] info.kbd.state = "Full" ->
            [action |-> IF info.kbd.enabled /\ kbc THEN "SetMax" ELSE "SetDefault",
             kb_charging |-> FALSE]
      [] info.kbd.state = "Discharging" ->
            IF kbc THEN [action |-> "SetDefault", kb_charging |-> FALSE]
            ELSE [action |->
                    CASE info.mb.state = "Full" -> "SetDefault"
                      [] info.mb.state = "Charging" /\ info.mb.soc > SOC_FLOOR ->
                            "MaybeStepDown"
                      [] info.mb.state = "Discharging" /\ info.mb.soc > SOC_FLOOR ->
                            decide_voltage(info)
                      [] info.mb.state = "Charging" /\ info.mb.soc <= SOC_FLOOR ->
                            decide_low_soc(m, info, checks)
                      [] info.mb.state = "Discharging" /\ info.mb.soc <= SOC_FLOOR ->
                            "MaybeStepUp",
                  kb_charging |-> kbc]

\* Ctx::decide: the action and the new value of kb_charging.
decide(m, kbc, info, checks) ==
    CASE info.kbd.state = "Charging" ->
            IF ~kbc THEN [action |-> "SetDefault", kb_charging |-> TRUE]
            ELSE [action |-> decide_charging(m, info), kb_charging |-> kbc]
      [] info.kbd.state = "Full" ->
            [action |-> IF info.kbd.enabled /\ kbc THEN "SetMax" ELSE "SetDefault",
             kb_charging |-> kbc]
      [] info.kbd.state = "Discharging" ->
            IF kbc THEN [action |-> "SetDefault", kb_charging |-> FALSE]
            ELSE [action |->
                    CASE info.mb.state = "Full" -> "SetDefault"
                      [] info.mb.state = "Charging" /\ info.mb.soc > SOC_FLOOR ->
                            "MaybeStepDown"
                      [] info.mb.state = "Discharging" /\ info.mb.soc > SOC_FLOOR ->
                            decide_voltage(info)
                      [] info.mb.state = "Charging" /\ info.mb.soc <= SOC_FLOOR ->
                            decide_low_soc(m, info, checks)
                      [] info.mb.state = "Discharging" /\ info.mb.soc <= SOC_FLOOR ->
                            "MaybeStepUp",
                  kb_charging |-> kbc]

----------------------------------------------------------------------------
(* The executor.  An operation of Device or Ctx is the sequence of effects  *)
(* it performs, in program order: a write to a sysfs attribute, or the      *)
(* reset of one of the two Instants to Instant::now().                      *)

Write(reg, val) == [k |-> "write", reg |-> reg, val |-> val]

Reset(timer) == [k |-> "reset", reg |-> timer, val |-> 0]

IsWrite(e) == e.k = "write"

\* Device::set_online: writes only when the flag differs from the snapshot's.
set_online(desired, cur) ==
    IF desired # cur THEN <<Write("kb_enabled", IF desired THEN 1 ELSE 0)>> ELSE <<>>

set_limit(limit) == <<Write("mb_limit", limit)>>

\* Device::set_kb_limit: writes whatever the current value is.
set_kb_limit(limit) == <<Write("kb_limit", limit)>>

set_limit_step(m, up, cur) ==
    LET limit == limit_step(m, up, cur)
    IN  IF limit # cur THEN set_limit(limit) ELSE <<>>

set_limit_default(m, cur) ==
    IF cur # default_limit(m) THEN set_limit(default_limit(m)) ELSE <<>>

set_limit_max(m, cur) ==
    IF cur # max_limit(m) THEN set_limit(max_limit(m)) ELSE <<>>

\* A faulty variant of Ctx::maybe_step that leaves last_step alone.
maybe_step_keeps_clock(elapsed, body) ==
    IF elapsed > STEP THEN body ELSE <<>>

\* Ctx::maybe_step: the rate gate; elapsed is last_step.elapsed().
maybe_step(elapsed, body) ==
    IF elapsed > STEP THEN <<Reset("last_step")>> \o body ELSE <<>>

step_up(m, info) ==
    IF ~info.kbd.enabled
    THEN set_online(TRUE, info.kbd.enabled)
    ELSE set_limit_step(m, TRUE, info.mb.limit)

\* A faulty variant of Ctx::step_down that cuts the boost off one rung early.
step_down_cuts_early(m, info) ==
    IF info.mb.limit <= valid_limits(m)[2]
    THEN <<Reset("last_offline")>> \o set_online(FALSE, info.kbd.enabled)
    ELSE set_limit_step(m, FALSE, info.mb.limit)

step_down(m, info) ==
    IF info.mb.limit = min_limit(m)
    THEN <<Reset("last_offline")>> \o set_online(FALSE, info.kbd.enabled)
    ELSE set_limit_step(m, FALSE, info.mb.limit)

\* A faulty variant of the offline recovery that leaves last_step alone.
recover_keeps_clock(info, elapsed) ==
    IF ~info.kbd.enabled /\ elapsed > OFFLINE
    THEN set_online(TRUE, info.kbd.enabled)
    ELSE <<>>

\* The offline recovery of Ctx::step (lines 433-437); elapsed is
\* last_offline.elapsed().
recover(info, elapsed) ==
    IF ~info.kbd.enabled /\ elapsed > OFFLINE
    THEN <<Reset("last_step")>> \o set_online(TRUE, info.kbd.enabled)
    ELSE <<>>

\* A faulty variant of the match that sends SetMax through the rate gate.
execute_gates_set_max(m, info, action, elapsed) ==
    CASE action = "Pass" -> <<>>
      [] action = "MaybeStepUp" -> maybe_step(elapsed, step_up(m, info))
      [] action = "MaybePhUpKbDown" ->
            maybe_step(elapsed,
                set_online(TRUE, info.kbd.enabled)
                \o set_kb_limit(KBLIM - limit_step(m, TRUE, info.mb.limit))
                \o set_limit_step(m, TRUE, info.mb.limit))
      [] action = "MaybeStepKbUp" ->
            maybe_step(elapsed,
                set_online(TRUE, info.kbd.enabled)
                \o (IF info.kbd.limit < KBLIM
                    THEN set_kb_limit(Min(info.kbd.limit + KB_STEP, KBLIM))
                    ELSE <<>>))
      [] action = "MaybeStepDown" -> maybe_step(elapsed, step_down(m, info))
      [] action = "SetDefault" ->
            <<Reset("last_step")>>
            \o set_online(TRUE, info.kbd.enabled)
            \o set_limit_default(m, info.mb.limit)
            \o set_kb_limit(KBLIM - default_limit(m))
      [] action = "SetMax" ->
            maybe_step(elapsed,
                set_online(TRUE, info.kbd.enabled)
                \o set_limit_max(m, info.mb.limit)
                \o set_kb_limit(KBLIM - default_limit(m)))

\* A faulty variant of the match whose MaybePhUpKbDown leaves the shared limit.
execute_ph_keeps_limit(m, info, action, elapsed) ==
    CASE action = "Pass" -> <<>>
      [] action = "MaybeStepUp" -> maybe_step(elapsed, step_up(m, info))
      [] action = "MaybePhUpKbDown" ->
            maybe_step(elapsed,
                set_online(TRUE, info.kbd.enabled)
                \o set_kb_limit(KBLIM - limit_step(m, TRUE, info.mb.limit)))
      [] action = "MaybeStepKbUp" ->
            maybe_step(elapsed,
                set_online(TRUE, info.kbd.enabled)
                \o (IF info.kbd.limit < KBLIM
                    THEN set_kb_limit(Min(info.kbd.limit + KB_STEP, KBLIM))
                    ELSE <<>>))
      [] action = "MaybeStepDown" -> maybe_step(elapsed, step_down(m, info))
      [] action = "SetDefault" ->
            <<Reset("last_step")>>
            \o set_online(TRUE, info.kbd.enabled)
            \o set_limit_default(m, info.mb.limit)
            \o set_kb_limit(KBLIM - default_limit(m))
      [] action = "SetMax" ->
            <<Reset("last_step")>>
            \o set_online(TRUE, info.kbd.enabled)
            \o set_limit_max(m, info.mb.limit)
            \o set_kb_limit(KBLIM - default_limit(m))

\* The match on the action of Ctx::step (lines 438-486); elapsed is
\* last_step.elapsed() when the match is reached.
execute(m, info, action, elapsed) ==
    CASE action = "Pass" -> <<>>
      [] action = "MaybeStepUp" -> maybe_step(elapsed, step_up(m, info))
      [] action = "MaybePhUpKbDown" ->
            maybe_step(elapsed,
                set_online(TRUE, info.kbd.enabled)
                \o set_kb_limit(KBLIM - limit_step(m, TRUE, info.mb.limit))
                \o set_limit_step(m, TRUE, info.mb.limit))
      [] action = "MaybeStepKbUp" ->
            maybe_step(elapsed,
                set_online(TRUE, info.kbd.enabled)
                \o (IF info.kbd.limit < KBLIM
                    THEN set_kb_limit(Min(info.kbd.limit + KB_STEP, KBLIM))
                    ELSE <<>>))
      [] action = "MaybeStepDown" -> maybe_step(elapsed, step_down(m, info))
      [] action = "SetDefault" ->
            <<Reset("last_step")>>
            \o set_online(TRUE, info.kbd.enabled)
            \o set_limit_default(m, info.mb.limit)
            \o set_kb_limit(KBLIM - default_limit(m))
      [] action = "SetMax" ->
            <<Reset("last_step")>>
            \o set_online(TRUE, info.kbd.enabled)
            \o set_limit_max(m, info.mb.limit)
            \o set_kb_limit(KBLIM - default_limit(m))

WasReset(effects, timer) ==
    \E i \in 1..Len(effects) : effects[i] = Reset(timer)

\* Everything Ctx::step does after decide: the recovery, then the action.
\* The recovery resets last_step, so the gate of a Maybe action sees 0.
plan(m, info, action, step_elapsed, offline_elapsed) ==
    LET rec == recover(info, offline_elapsed)
    IN  rec \o execute(m, info, action,
                       IF WasReset(rec, "last_step") THEN 0 ELSE step_elapsed)

Writes(effects) == SelectSeq(effects, IsWrite)

\* The effects performed when the fail-th write returns an error (all of
\* them when fail = 0): the ? after the failing write leaves Ctx::step.
performed(effects, fail) ==
    IF fail = 0 THEN effects
    ELSE LET at == CHOOSE i \in 1..Len(effects) :
                       /\ IsWrite(effects[i])
                       /\ Len(Writes(SubSeq(effects, 1, i))) = fail
         IN  SubSeq(effects, 1, at - 1)

\* The value of a sysfs attribute after the writes among the effects.
written(effects, reg, old) ==
    LET ws == SelectSeq(effects, LAMBDA e : IsWrite(e) /\ e.reg = reg)
    IN  IF ws = <<>> THEN old ELSE ws[Len(ws)].val


\* Instant::elapsed() dt seconds later, saturated at cap.
Elapsed(age, dt, cap) == Min(age + dt, cap)

----------------------------------------------------------------------------
(* main: the loop *)

StepCap == STEP + 1

OfflineCap == OFFLINE + 1

MaybeActions == {"MaybeStepUp", "MaybeStepDown", "MaybePhUpKbDown", "MaybeStepKbUp"}

\* What the telemetry attributes can hold at a tick (the three attributes the
\* daemon writes are state variables).
StatusTexts == {"Charging", "Discharging", "Full"}

KbCurrents == {500000}

MbCurrents == {-700000, 700000}

Telemetry ==
    [kb_state : StatusTexts, kb_soc : {50}, kb_voltage : {3700000},
     kb_current : KbCurrents,
     mb_state : StatusTexts, mb_soc : {20, 50}, mb_voltage : {3900000},
     mb_current : MbCurrents]

\* What the keyboard's charge limit holds when the daemon starts.
KbLimitAtStart == 2200000

\* Limits sysfs may hold that are in no table.
StrayLimits == {100000, 3000000}

TableLimits(m) == {valid_limits(m)[i] : i \in 1..Len(valid_limits(m))}

NoTick ==
    [dt |-> 0, bad |-> "none", parsed |-> TRUE, result |-> "none", kbd_state |-> "none",
     soc_absent |-> FALSE, enabled |-> FALSE, overdue |-> FALSE,
     limit |-> 0, kb_limit |-> 0, was_charging |-> FALSE, step_age |-> 0,
     offline_age |-> 0,
     action |-> "none", recovery |-> FALSE, gate |-> FALSE, writes |-> <<>>]

Summary(t) ==
    [action |-> t.action, result |-> t.result, gate |-> t.gate,
     wrote |-> (t.writes # <<>>), kbd_state |-> t.kbd_state]

\* The match on the action (line 438) was reached: the recovery before it,
\* if it ran, did not fail in its write.
Reached(t) ==
    ~(t.recovery /\ t.result = "write_failed" /\ t.writes = <<>>)

\* The tick fired: the body of a Maybe action was entered, a SetDefault or a
\* SetMax was executed, or the offline recovery ran.
Fired(t) ==
    \/ t.gate
    \/ t.recovery
    \/ t.action \in {"SetDefault", "SetMax"} /\ Reached(t)

NoCall == [fn |-> "none"]

\* main, lines 494-499: Ctx is built with both Instants at now.
Init ==
    /\ model \in Models
    /\ kb_enabled \in {0, 1}
    /\ mb_limit \in TableLimits(model) \cup StrayLimits
    /\ kb_limit = KbLimitAtStart
    /\ kb_charging = FALSE
    /\ last_step = 0
    /\ last_offline = 0
    /\ offline_for = 0
    /\ since_fired = 0
    /\ session = "none"
    /\ pc = "sleep"
    /\ tick = NoTick
    /\ prev = Summary(NoTick)
    /\ call = NoCall

\* time::sleep at line 501, and whatever else delays the iteration: dt
\* seconds pass before Ctx::step reads the clock.
Sleep(dt) ==
    /\ pc = "sleep"
    /\ pc' = "step"
    /\ prev' = Summary(tick)
    /\ tick' = [NoTick EXCEPT !.dt = dt]
    /\ last_step' = Elapsed(last_step, dt, StepCap)
    /\ last_offline' = Elapsed(last_offline, dt, OfflineCap)
    /\ offline_for' = IF kb_enabled = 1 THEN 0 ELSE Elapsed(offline_for, dt, OfflineCap)
    /\ since_fired' = Elapsed(since_fired, dt, StepCap)
    /\ UNCHANGED <<model, kb_enabled, mb_limit, kb_limit, kb_charging, session, call>>

\* Whether decide overflows on this snapshot (line 367).
overflows(m, kbc, info) == decide(m, kbc, info, TRUE).action = "Panic"

\* Ctx::step and the match on its result at line 502.  raw is the telemetry,
\* bad the attribute whose read fails (or "none"), fails the writes that may
\* return an error (0: none does).  A build with overflow checks panics where
\* one without them wraps.
Step(raw, bad, fails) ==
    /\ pc = "step"
    /\ UNCHANGED <<model, call, prev>>
    /\ \E info \in {Device_info(model, raw, mb_limit, kb_limit, kb_enabled, bad)} :
        IF ~info.ok
           THEN \* Device::info failed: the ? at line 414 leaves step at once
                /\ tick' = [tick EXCEPT
                               !.bad = bad,
                               !.parsed = (/\ from_str(raw.kb_state) # "Err"
                                           /\ from_str(raw.mb_state) # "Err"),
                               !.result = "read_failed"]
                /\ pc' = "sleep"
                /\ UNCHANGED <<kb_enabled, mb_limit, kb_limit, kb_charging, last_step,
                               last_offline, offline_for, since_fired, session>>
           ELSE \E checks \in IF overflows(model, kb_charging, info)
                              THEN BOOLEAN ELSE {TRUE},
                   seen \in {[tick EXCEPT
                                !.bad = bad,
                                !.kbd_state = info.kbd.state,
                                !.soc_absent = (info.kbd.soc = {}),
                                !.enabled = info.kbd.enabled,
                                !.limit = info.mb.limit,
                                !.kb_limit = info.kbd.limit,
                                !.was_charging = kb_charging,
                                !.step_age = last_step,
                                !.offline_age = last_offline,
                                !.overdue = (~info.kbd.enabled /\ offline_for > OFFLINE)]} :
                  \E d \in {decide(model, kb_charging, info, checks)} :
                    /\ session' = IF info.kbd.state = "Full" THEN session
                                  ELSE info.kbd.state
                    /\ IF d.action = "Panic"
                       THEN \* the panic unwinds main
                            /\ tick' = [seen EXCEPT !.result = "aborted"]
                            /\ pc' = "aborted"
                            /\ UNCHANGED <<kb_enabled, mb_limit, kb_limit, kb_charging,
                                           last_step, last_offline, offline_for,
                                           since_fired>>
                       ELSE \E effects \in {plan(model, info, d.action, last_step,
                                                 last_offline)} :
                            \E fail \in (0..Len(Writes(effects))) \cap fails :
                            \E done \in {performed(effects, fail)} :
                            \E en \in {written(done, "kb_enabled", kb_enabled)} :
                               /\ tick' = [seen EXCEPT
                                      !.result = IF fail = 0 THEN "ok" ELSE "write_failed",
                                      !.action = d.action,
                                      !.recovery = (recover(info, last_offline) # <<>>),
                                      !.gate = (/\ d.action \in MaybeActions
                                                /\ ~WasReset(recover(info, last_offline),
                                                             "last_step")
                                                /\ last_step > STEP),
                                      !.writes = Writes(done)]
                               /\ since_fired' = IF Fired(tick') THEN 0 ELSE since_fired
                               /\ kb_charging' = d.kb_charging
                               /\ kb_enabled' = en
                               /\ mb_limit' = written(done, "mb_limit", mb_limit)
                               /\ kb_limit' = written(done, "kb_limit", kb_limit)
                               /\ last_step' =
                                      IF WasReset(done, "last_step") THEN 0 ELSE last_step
                               /\ last_offline' =
                                      IF WasReset(done, "last_offline") THEN 0
                                      ELSE last_offline
                               /\ offline_for' =
                                      IF en = 1 \/ kb_enabled = 1 THEN 0 ELSE offline_for
                               /\ pc' = "sleep"

MaxWrites == 4

Durations == {ShortTick, LongTick}

\* The attributes whose failed read fails the snapshot.
Required == Attrs \ {"kb_soc"}

AnyTelemetry == CHOOSE raw \in Telemetry : TRUE

Sleeps == \E dt \in Durations : Sleep(dt)

\* An iteration whose snapshot fails because a read does (what the other
\* attributes hold is never looked at).
StepReadFail == \E bad \in Required : Step(AnyTelemetry, bad, {0})

\* An iteration whose snapshot fails because a status text does not parse.
StepUnparsed ==
    \E a \in {"kb_state", "mb_state"} :
        Step([AnyTelemetry EXCEPT ![a] = "Unknown"], "none", {0})

\* An iteration that gets its snapshot; a write of it may fail.
StepRun == \E raw \in Telemetry : Step(raw, "none", 0..MaxWrites)

\* An iteration that cannot read the keyboard's state of charge.
StepNoSoc == \E raw \in Telemetry : Step(raw, "kb_soc", {0})

Next == Sleeps \/ StepReadFail \/ StepUnparsed \/ StepRun \/ StepNoSoc

Spec == Init /\ [][Next]_vars

\* The loop when every read and every write succeeds: main never leaves its
\* loop, so the sleep ends and an iteration follows.
StepGood == \E raw \in Telemetry : Step(raw, "none", {0})

LiveNext == Sleeps \/ StepGood

LiveSpec == Init /\ [][LiveNext]_vars /\ WF_vars(Sleeps) /\ WF_vars(StepGood)

----------------------------------------------------------------------------
(* The pure functions on their own: Model::limit_step applied to a limit    *)
(* and to its own results, and Ctx::decide applied to one snapshot.         *)

\* How many times limit_step is applied in a row.
MaxCalls == 2

\* What the telemetry attributes can hold in a snapshot handed to decide.
WideTelemetry ==
    [kb_state : StatusTexts \cup {"Not charging"}, kb_soc : {50},
     kb_voltage : {3700000, 3850000},
     kb_current : {-400000, 400000, 1000000},
     mb_state : StatusTexts, mb_soc : {30, 31},
     mb_voltage : {3550000, 3700000, 4000000},
     mb_current : {-700000, 0, 300000, 700000, 2600000}]

FnInit ==
    /\ model \in Models
    /\ kb_enabled = 1
    /\ mb_limit = default_limit(model)
    /\ kb_limit = KbLimitAtStart
    /\ kb_charging = FALSE
    /\ last_step = 0
    /\ last_offline = 0
    /\ offline_for = 0
    /\ since_fired = 0
    /\ session = "none"
    /\ pc = "sleep"
    /\ tick = NoTick
    /\ prev = Summary(NoTick)
    /\ call = NoCall

\* limit_step(up, cur) on a limit, then on what it returned.
CallLimitStep ==
    /\ \E up \in BOOLEAN :
         \/ /\ call = NoCall
            /\ \E x \in TableLimits(model) \cup StrayLimits :
                 call' = [fn |-> "limit_step", x |-> x, path |-> <<up>>,
                          ret |-> limit_step(model, up, x)]
         \/ /\ call.fn = "limit_step"
            /\ Len(call.path) < MaxCalls
            /\ call' = [call EXCEPT !.path = Append(call.path, up),
                                    !.ret = limit_step(model, up, call.ret)]
    /\ UNCHANGED <<model, kb_enabled, mb_limit, kb_limit, kb_charging, last_step,
                   last_offline, offline_for, since_fired, session, pc, tick, prev>>

\* decide(&info) on the snapshot Device::info makes of the telemetry.
CallDecide ==
    /\ call = NoCall
    /\ \E raw \in WideTelemetry, mbl \in TableLimits(model) \cup StrayLimits,
          en \in {0, 1}, kbc \in BOOLEAN :
         \E info \in {Device_info(model, raw, mbl, KbLimitAtStart, en, "none")} :
           /\ info.ok
           /\ \E checks \in IF overflows(model, kbc, info) THEN BOOLEAN ELSE {TRUE} :
                call' = [fn |-> "decide", kb_charging |-> kbc, info |-> info,
                         ret |-> decide(model, kbc, info, checks)]
    /\ UNCHANGED <<model, kb_enabled, mb_limit, kb_limit, kb_charging, last_step,
                   last_offline, offline_for, since_fired, session, pc, tick, prev>>

\* The magnitudes current_now reports around the thresholds of the sign hack.
SignCurrents == {0, 300000, 625000, 625001, 2500000, 2500001, 3750001}

SignTelemetry ==
    [kb_state : {"Discharging"}, kb_soc : {50}, kb_voltage : {3700000},
     kb_current : {400000}, mb_state : StatusTexts \cup {"Not charging"},
     mb_soc : {50}, mb_voltage : {3900000}, mb_current : SignCurrents]

\* MainBattery::get on what sysfs reports for the main battery.
CallMainBatteryGet ==
    /\ call = NoCall
    /\ \E raw \in SignTelemetry, mbl \in TableLimits(model) \cup StrayLimits :
         call' = [fn |-> "MainBattery_get", raw |-> raw, limit |-> mbl,
                  ret |-> MainBattery_get(model, raw, mbl, "none")]
    /\ UNCHANGED <<model, kb_enabled, mb_limit, kb_limit, kb_charging, last_step,
                   last_offline, offline_for, since_fired, session, pc, tick, prev>>

FnNext == CallLimitStep \/ CallDecide \/ CallMainBatteryGet

FnSpec == FnInit /\ [][FnNext]_vars

----------------------------------------------------------------------------
(* The claims of the specification, C1 to C10 *)

\* An iteration that got its snapshot, decided and returned from Ctx::step.
Ran(t) == t.result \in {"ok", "write_failed"}

\* C1: whenever a tick's snapshot shows the boost converter disabled and the
\* converter has been disabled for more than OFFLINE seconds, that tick forces
\* the converter back online, whatever the engine decided on that tick and on
\* the ticks before it: after a tick that succeeded on such a snapshot the
\* converter is enabled.
C1_OfflineRecovery ==
    (tick.result = "ok" /\ tick.overdue) => kb_enabled = 1

\* C2: when ticks keep succeeding, a disabled boost converter is eventually
\* re-enabled, for every sequence of snapshots and decisions (the run ending
\* in a panic apart).
C2_BoostReenabled ==
    (kb_enabled = 0) ~> (kb_enabled = 1 \/ pc = "aborted")

\* C3 as the specification states it: of two MaybeStepUp decisions made on
\* consecutive ticks less than STEP seconds apart, exactly one results in an
\* executed hardware write.
C3_ExactlyOneWrite ==
    (/\ prev.action = "MaybeStepUp" /\ prev.result = "ok"
     /\ tick.action = "MaybeStepUp" /\ tick.result = "ok"
     /\ tick.dt < STEP)
    => (prev.wrote # (tick.writes # <<>>))

\* C3, amended: of two MaybeStepUp decisions made on consecutive ticks less
\* than STEP seconds apart, at most one passes the rate gate, and when both
\* ticks succeed at most one of them writes (neither writes when the gate is
\* shut for both, or when the one that passes it finds the limit at the top
\* of the table).
C3_AtMostOneStep ==
    (/\ prev.action = "MaybeStepUp" /\ Ran(prev)
     /\ tick.action = "MaybeStepUp" /\ Ran(tick)
     /\ tick.dt < STEP)
    => /\ ~(prev.gate /\ tick.gate)
       /\ (prev.result = "ok" /\ tick.result = "ok")
              => ~(prev.wrote /\ tick.writes # <<>>)

\* Two MaybeStepUp ticks ShortTick apart: the first stepped, the second was
\* held back by the gate.
C3_Witness ==
    /\ prev.action = "MaybeStepUp" /\ prev.result = "ok" /\ prev.gate /\ prev.wrote
    /\ tick.action = "MaybeStepUp" /\ tick.result = "ok" /\ tick.dt < STEP
    /\ ~tick.gate /\ tick.writes = <<>>

\* C4: when SetDefault is applied on two successive ticks, the second seeing
\* exactly what the first wrote, the second application issues no hardware
\* write at all.
C4_SetDefaultIdempotent ==
    (/\ prev.action = "SetDefault" /\ prev.result = "ok"
     /\ tick.action = "SetDefault" /\ tick.result = "ok")
    => tick.writes = <<>>

\* C5: when a tick fails while executing the writes of its action, the next
\* tick on the same telemetry re-derives the same action; in particular for
\* the SetDefault of the first tick of a keyboard charging session.
C5_LevelTriggered ==
    (/\ prev.action = "SetDefault" /\ prev.result = "write_failed"
     /\ prev.kbd_state = "Charging"
     /\ tick.kbd_state = "Charging" /\ Ran(tick))
    => tick.action = "SetDefault"

\* C6: on every tick whose snapshot has the keyboard Charging while
\* kb_charging is false the engine emits SetDefault and kb_charging becomes
\* true; so the first Charging tick after a Discharging one (or after the
\* start), with only Full ticks in between, emits SetDefault, and no later
\* Charging tick does until the keyboard has been seen Discharging again.
C6_SessionStart ==
    [][(pc = "step" /\ tick'.kbd_state = "Charging")
       => /\ kb_charging'
          /\ ~kb_charging => tick'.action = "SetDefault"
          /\ session # "Charging" => tick'.action = "SetDefault"
          /\ session = "Charging" => tick'.action # "SetDefault"]_vars

\* A session that starts on the tick after one that saw the keyboard
\* Discharging.
C6_Witness ==
    /\ prev.kbd_state = "Discharging" /\ Ran(prev)
    /\ tick.kbd_state = "Charging" /\ tick.result = "ok"
    /\ tick.action = "SetDefault" /\ kb_charging

\* What decide compares in its Charging arm (lines 313-315).
Ceiling == KBLIM + KBLIM \div 16

NetTotal(info) == info.kbd.current + info.mb.limit

InSession == call.fn = "decide" /\ call.info.kbd.state = "Charging" /\ call.kb_charging

\* C7 as the specification states it: for a keyboard Charging inside a
\* session, MaybeStepUp is never emitted when netTotal >= ceiling, for every
\* main limit a snapshot can carry, entries of the table or not.
C7_NoStepUpOverCeiling ==
    InSession
    => ~(call.ret.action = "MaybeStepUp" /\ NetTotal(call.info) >= Ceiling)

\* C7, amended: for a keyboard Charging inside a session and a main limit
\* that is an entry of the model's table, MaybeStepUp is never emitted when
\* netTotal >= ceiling (a limit outside the table steps "up" to the third
\* entry, which may lie below it).
C7_NoStepUpOverCeilingInTable ==
    (InSession /\ call.info.mb.limit \in TableLimits(model))
    => ~(call.ret.action = "MaybeStepUp" /\ NetTotal(call.info) >= Ceiling)

\* Over the ceiling with the main battery discharging and a limit of the
\* table: the engine asks for MaybePhUpKbDown.
C7_Witness ==
    /\ InSession
    /\ call.info.mb.limit \in TableLimits(model)
    /\ NetTotal(call.info) >= Ceiling
    /\ call.info.mb.current < 0
    /\ call.ret.action = "MaybePhUpKbDown"

\* C8: if the read of a required attribute (any but a state of charge) fails
\* or a status does not parse, the tick hands no snapshot to the engine: it
\* issues no write, leaves kb_charging, last_step and last_offline as they
\* were, and the loop goes on to the next tick.
C8_FailFast ==
    [][(pc = "step" /\ (tick'.bad \in Required \ {"mb_soc"} \/ ~tick'.parsed))
       => /\ tick'.result = "read_failed"
          /\ tick'.action = "none"
          /\ tick'.kbd_state = "none"
          /\ tick'.writes = <<>>
          /\ UNCHANGED <<kb_enabled, mb_limit, kb_limit, kb_charging, last_step,
                         last_offline>>
          /\ pc' = "sleep"]_vars

\* A tick inside a session that could not read the keyboard's voltage.
C8_Witness ==
    /\ tick.bad = "kb_voltage" /\ tick.result = "read_failed"
    /\ kb_charging /\ pc = "sleep"

\* C9 as the specification states it: an unreadable state of charge, of the
\* keyboard or of the main battery, does not fail the tick.
C9_SocOptional ==
    tick.bad \in {"kb_soc", "mb_soc"} => tick.result # "read_failed"

\* C9, amended: only the keyboard's state of charge degrades to absent: the
\* tick still gets its snapshot and the engine decides on it; an unreadable
\* main-battery state of charge fails the tick like any other required read.
C9_KeyboardSocOptional ==
    /\ tick.bad = "kb_soc"
       => /\ tick.result \in {"ok", "aborted"}
          /\ tick.soc_absent
          /\ tick.kbd_state \in StatusTexts
          /\ tick.result = "ok" => tick.action \in Actions
    /\ tick.bad = "mb_soc"
       => /\ tick.result = "read_failed"
          /\ tick.action = "none"

\* A tick that stepped down without the keyboard's state of charge.
C9_Witness ==
    /\ tick.bad = "kb_soc" /\ tick.soc_absent /\ tick.result = "ok"
    /\ tick.action = "MaybeStepDown" /\ tick.writes # <<>>

\* The entries of the model's table that are neither its first nor its last.
Interior(m) ==
    {valid_limits(m)[i] : i \in 2..(Len(valid_limits(m)) - 1)}

\* C10: for both tables and every entry x that is neither the first nor the
\* last, limit_step(up, limit_step(down, x)) = x.
C10_RoundTrip ==
    (/\ call.fn = "limit_step"
     /\ call.path = <<FALSE, TRUE>>
     /\ call.x \in Interior(model))
    => call.ret = call.x

\* Down then up from the fourth entry of the PinePhonePro's table.
C10_Witness ==
    /\ call.fn = "limit_step" /\ model = "PinePhonePro"
    /\ call.path = <<FALSE, TRUE>>
    /\ call.x = valid_limits(model)[4] /\ call.ret = call.x

----------------------------------------------------------------------------
(* The claims of the specification, C11 to C20 *)

OneStep == call.fn = "limit_step" /\ Len(call.path) = 1

\* C11 as the specification states it: for both tables and every value x,
\* an entry of the table or not, limit_step(up, x) >= x and
\* limit_step(down, x) <= x.
C11_Monotonic ==
    OneStep => IF call.path[1] THEN call.ret >= call.x ELSE call.ret <= call.x

\* C11, amended: for both tables and every entry x of the table,
\* limit_step(up, x) >= x and limit_step(down, x) <= x (a value that matches
\* no entry steps to the third entry in either direction, which lies above
\* a small value and below a large one).
C11_MonotonicInTable ==
    (OneStep /\ call.x \in TableLimits(model))
    => IF call.path[1] THEN call.ret >= call.x ELSE call.ret <= call.x

\* A step up from the second entry, to the third.
C11_Witness ==
    /\ OneStep /\ call.path[1]
    /\ call.x = valid_limits(model)[2] /\ call.ret = valid_limits(model)[3]
    /\ call.ret > call.x

\* C12: on the PinePhone, for a reported magnitude m and a limit L, the
\* snapshot's main current is -m - 1 when m > L + L \div 4 and m otherwise;
\* so a main battery whose reported magnitude exceeds 1.25 times the limit is
\* never classified as Charging.
C12_SignHeuristic ==
    (call.fn = "MainBattery_get" /\ model = "PinePhone")
    => /\ call.ret.ok
       /\ call.ret.current =
              IF call.raw.mb_current > call.limit + call.limit \div 4
              THEN -call.raw.mb_current - 1
              ELSE call.raw.mb_current
       /\ 4 * call.raw.mb_current > 5 * call.limit => call.ret.state # "Charging"

\* A magnitude one above the threshold of the lowest limit, reported with
\* status Charging: the complement, and Discharging.
C12_Witness ==
    /\ call.fn = "MainBattery_get" /\ model = "PinePhone"
    /\ call.limit = 500000 /\ call.raw.mb_current = 625001
    /\ call.raw.mb_state = "Charging"
    /\ call.ret.current = -625002 /\ call.ret.state = "Discharging"

\* The writes of a tick beyond the one of the offline recovery.
BodyWrites(t) ==
    IF t.recovery /\ t.writes # <<>> THEN Tail(t.writes) ELSE t.writes

\* C13: the body of a Maybe action executes only if at least STEP seconds
\* have passed since last_step was last reset, and last_step is reset before
\* the writes of the body: last_step is at every moment the time since the
\* start or the last tick that fired (the body of a Maybe action entered,
\* its write failing or not, a SetDefault, a SetMax, an offline recovery),
\* and a Maybe action writes only when that time is at least STEP.
C13_RateGate ==
    /\ last_step = since_fired
    /\ tick.action \in MaybeActions
       => /\ tick.gate => tick.step_age >= STEP
          /\ BodyWrites(tick) # <<>> => tick.gate
          /\ (tick.result = "write_failed" /\ Reached(tick)) => tick.gate

\* A Maybe action that stepped on the first tick the gate let it, after a
\* SetDefault.
C13_Witness ==
    /\ prev.action = "SetDefault" /\ prev.result = "ok"
    /\ tick.action \in MaybeActions /\ tick.gate /\ tick.result = "ok"
    /\ BodyWrites(tick) # <<>>
    /\ tick.step_age > STEP /\ last_step = 0

Immediate == {"SetDefault", "SetMax"}

\* C14: SetDefault and SetMax are executed on the tick they are decided,
\* however recently a rate-limited action fired, and each resets last_step to
\* now; every other action (Pass, and a Maybe action the gate holds back)
\* leaves last_step as it was unless the offline recovery fired on the tick.
C14_ImmediateActions ==
    /\ (tick.action \in Immediate /\ Ran(tick) /\ Reached(tick)) => last_step = 0
    /\ (tick.action \in Immediate /\ tick.result = "ok")
       => /\ kb_enabled = 1
          /\ mb_limit = IF tick.action = "SetMax" THEN max_limit(model)
                        ELSE default_limit(model)
          /\ kb_limit = KBLIM - default_limit(model)
    /\ (/\ Ran(tick)
        /\ tick.action = "Pass" \/ (tick.action \in MaybeActions /\ ~tick.gate)
        /\ ~tick.recovery)
       => last_step = tick.step_age

\* A SetMax that raised the limit ShortTick after a Maybe action had fired.
C14_Witness ==
    /\ prev.action \in MaybeActions /\ prev.gate /\ prev.result = "ok"
    /\ tick.action = "SetMax" /\ tick.result = "ok"
    /\ tick.dt < STEP /\ tick.step_age < STEP
    /\ tick.limit # max_limit(model) /\ mb_limit = max_limit(model)
    /\ last_step = 0

\* A MaybeStepDown that passed the gate and returned without error.
SteppedDown == tick.action = "MaybeStepDown" /\ tick.gate /\ tick.result = "ok"

Untouched ==
    /\ kb_enabled = (IF tick.enabled THEN 1 ELSE 0)
    /\ last_offline = tick.offline_age

\* Only an executed MaybeStepDown at the minimum switches the boost off.
OnlyCutOff ==
    (Ran(tick) /\ tick.enabled /\ kb_enabled = 0)
    => (tick.action = "MaybeStepDown" /\ tick.gate /\ tick.limit = min_limit(model))

\* C15 as the specification states it: an executed MaybeStepDown whose
\* snapshot has the limit at the table minimum switches the boost off, sets
\* last_offline to now and leaves the limit; with any other limit it steps
\* the limit down and leaves the boost flag and last_offline; the boost is
\* switched off in no other circumstance.
C15_CutOffAtMinimum ==
    /\ SteppedDown
       => IF tick.limit = min_limit(model)
          THEN kb_enabled = 0 /\ last_offline = 0 /\ mb_limit = tick.limit
          ELSE mb_limit < tick.limit /\ Untouched
    /\ OnlyCutOff

\* C15, amended: as stated for a limit that is an entry of the table, which
\* steps down to the entry below; a limit that matches no entry is replaced
\* by the third entry of the table, which lies above a limit smaller than it.
C15_CutOffAtMinimumInTable ==
    /\ SteppedDown
       => CASE tick.limit = min_limit(model) ->
                  kb_enabled = 0 /\ last_offline = 0 /\ mb_limit = tick.limit
            [] tick.limit \in TableLimits(model) \ {min_limit(model)} ->
                  /\ mb_limit = valid_limits(model)[position(valid_limits(model),
                                                             tick.limit) - 1]
                  /\ mb_limit < tick.limit
                  /\ Untouched
            [] OTHER ->
                  mb_limit = valid_limits(model)[3] /\ Untouched
    /\ OnlyCutOff

\* A step down at the minimum that switched an enabled boost off.
C15_Witness ==
    /\ SteppedDown /\ tick.limit = min_limit(model) /\ tick.enabled
    /\ kb_enabled = 0 /\ last_offline = 0 /\ mb_limit = tick.limit

\* A MaybePhUpKbDown that passed the gate and returned without error.
PhoneUp == tick.action = "MaybePhUpKbDown" /\ tick.gate /\ tick.result = "ok"

\* C16 as the specification states it: executing the keyboard-priority
\* action (MaybePhUpKbDown in the code) does not raise the shared input limit
\* above its value in the snapshot and does not lower the keyboard's charge
\* limit below its value in the snapshot.
C16_KeyboardPriority ==
    PhoneUp => (mb_limit <= tick.limit /\ kb_limit >= tick.kb_limit)

\* C16, amended: executing MaybePhUpKbDown switches the boost on, steps the
\* shared input limit up one rung (it stays at the top of the table) and sets
\* the keyboard's charge limit to KBLIM less the stepped limit: the budget
\* moves toward the phone.
C16_PhoneUpKeyboardDown ==
    PhoneUp
    => /\ kb_enabled = 1
       /\ kb_limit = KBLIM - mb_limit
       /\ tick.limit \in TableLimits(model)
          => /\ mb_limit >= tick.limit
             /\ mb_limit = valid_limits(model)[
                    Min(Len(valid_limits(model)),
                        position(valid_limits(model), tick.limit) + 1)]

\* The limit went up a rung and the keyboard's charge limit came down.
C16_Witness ==
    /\ PhoneUp
    /\ mb_limit > tick.limit /\ kb_limit < tick.kb_limit
    /\ kb_limit = KBLIM - mb_limit

\* Both sources discharge, no session, the main battery above the floor.
VoltageArm ==
    /\ call.fn = "decide"
    /\ call.info.kbd.state = "Discharging" /\ ~call.kb_charging
    /\ call.info.mb.state = "Discharging" /\ call.info.mb.soc > SOC_FLOOR

\* C17: with both sources discharging, no session and the main battery above
\* the floor, the action is MaybeStepDown exactly when the main voltage
\* exceeds the keyboard's by more than VDIF; it is Pass whenever the voltages
\* differ by no more than VDIF in either direction; MaybeStepUp is emitted
\* only when the main voltage is below the keyboard's by more than VDIF and
\* the main current's magnitude exceeds the keyboard's.
C17_VoltageHysteresis ==
    VoltageArm
    => LET mbv == call.info.mb.voltage
           kbv == call.info.kbd.voltage
           a == call.ret.action
       IN  /\ a = "MaybeStepDown" <=> mbv - kbv > VDIF
           /\ Abs(mbv - kbv) <= VDIF => a = "Pass"
           /\ a = "MaybeStepUp"
              => /\ kbv - mbv > VDIF
                 /\ Abs(call.info.mb.current) > Abs(call.info.kbd.current)

\* C18: on every tick whose snapshot has the keyboard Full the action is
\* SetMax exactly when the boost is enabled and kb_charging is true, and
\* SetDefault otherwise, and the tick leaves kb_charging as it was; so
\* kb_charging changes only from false to true on a keyboard-Charging tick
\* and from true to false on a keyboard-Discharging tick.
C18_KeyboardFull ==
    Ran(tick)
    => /\ tick.kbd_state = "Full"
          => /\ tick.action = IF tick.enabled /\ tick.was_charging
                              THEN "SetMax" ELSE "SetDefault"
             /\ kb_charging = tick.was_charging
       /\ (~tick.was_charging /\ kb_charging) => tick.kbd_state = "Charging"
       /\ (tick.was_charging /\ ~kb_charging) => tick.kbd_state = "Discharging"

\* A Full tick inside a session, the boost enabled: SetMax, the session kept.
C18_Witness ==
    /\ tick.kbd_state = "Full" /\ tick.result = "ok"
    /\ tick.enabled /\ tick.was_charging
    /\ tick.action = "SetMax" /\ kb_charging

\* Every value a tick wrote to the shared limit is an entry of the table, and
\* a limit that was an entry still is one.
LadderWrites ==
    /\ \A i \in 1..Len(tick.writes) :
         tick.writes[i].reg = "mb_limit" => tick.writes[i].val \in TableLimits(model)
    /\ (Ran(tick) /\ tick.limit \in TableLimits(model)) => mb_limit \in TableLimits(model)

\* C19 as the specification states it: every value written to the shared
\* limit is an entry of the table, so a limit that is an entry stays one, and
\* a limit that matches no entry is replaced by an entry by the first
\* executed step, SetDefault or SetMax.
C19_OnlyLadderValues ==
    /\ LadderWrites
    /\ (/\ tick.result = "ok"
        /\ \/ tick.action \in Immediate
           \/ tick.action \in {"MaybeStepUp", "MaybeStepDown"} /\ tick.gate)
       => mb_limit \in TableLimits(model)

\* C19, amended: a limit that matches no entry is replaced by an entry by the
\* first executed SetDefault, SetMax, MaybeStepDown, MaybePhUpKbDown, or
\* MaybeStepUp that finds the boost enabled; a MaybeStepUp that finds the
\* boost disabled only switches it on and leaves the limit.
C19_OnlyLadderValuesBoostOn ==
    /\ LadderWrites
    /\ (/\ tick.result = "ok"
        /\ \/ tick.action \in Immediate
           \/ tick.action \in {"MaybeStepDown", "MaybePhUpKbDown"} /\ tick.gate
           \/ tick.action = "MaybeStepUp" /\ tick.gate /\ tick.enabled)
       => mb_limit \in TableLimits(model)
    /\ (/\ tick.result = "ok"
        /\ tick.action = "MaybeStepUp" /\ tick.gate /\ ~tick.enabled)
       => mb_limit = tick.limit /\ kb_enabled = 1

\* A step down from a limit that matches no entry, to the third entry.
C19_Witness ==
    /\ tick.limit \notin TableLimits(model)
    /\ tick.action = "MaybeStepDown" /\ tick.gate /\ tick.result = "ok"
    /\ mb_limit = valid_limits(model)[3]

\* Keyboard discharging, no session, the main battery charging at or below
\* the floor.
LowSocArm ==
    /\ call.fn = "decide"
    /\ call.info.kbd.state = "Discharging" /\ ~call.kb_charging
    /\ call.info.mb.state = "Charging" /\ call.info.mb.soc <= SOC_FLOOR

\* C20: in the low state-of-charge arm delta = limit - limit_step(down, limit)
\* is never negative, for both models and every limit a snapshot can carry,
\* an entry of the table or not; so the decision is MaybeStepDown or Pass and
\* the engine never aborts.
C20_NoUnderflow ==
    LowSocArm
    => /\ call.info.mb.limit - limit_step(model, FALSE, call.info.mb.limit) >= 0
       /\ call.ret.action \in {"MaybeStepDown", "Pass"}

====
